---------------------------- MODULE Spec2Model ----------------------------
(***************************************************************************)
(* Fertilizer quantity engine of AgriThesis                                *)
(* (src/app/utils/fertilizer_quantity.py, src/app/utils/data_processing.py)*)
(* and the prediction service around it (src/app/models/ml_models.py,      *)
(* src/app/services/prediction_service.py, firebase_service.py, main.py).  *)
(*                                                                         *)
(* Numbers.  The program computes with binary floating point.  The model   *)
(* computes with exact rationals [n |-> numerator, d |-> denominator] in   *)
(* lowest terms, and every value that the program passes through           *)
(* round(x, 1) is held as an integer number of tenths (514.3 is 5143).     *)
(* An exact value that lies halfway between two tenths is resolved the way *)
(* the program's floating-point evaluation resolves it (FloatTieUp,        *)
(* FloatTieDown).  pH is held in tenths (5.0 is 50), rainfall in mm.       *)
(*                                                                         *)
(* Text.  A Python str is a sequence of words; `a in b` is "a is a         *)
(* contiguous run of words of b".  Parentheses are words of their own.     *)
(***************************************************************************)
EXTENDS Integers, Sequences, FiniteSets, TLC

VARIABLES
    sensor_data,      \* argument of calculate_fertilizer_recommendation
    fertilizer_type,  \* argument: [type |-> "str", value |-> words] or None
    pc,               \* position inside calculate_fertilizer_recommendation
    deficit,          \* local `deficit`   (step 1)
    adjusted,         \* local `adjusted`  (step 2)
    quantity,         \* local `quantity` of get_fertilizer_quantities, unrounded
    sec_quantity,     \* local `sec_quantity` of get_fertilizer_quantities, unrounded
    recommendations,  \* local `recommendations` (step 3)
    raised,           \* TRUE once an exception was caught by the except clause
    result,           \* the value last returned to the caller
    caller,           \* what the caller passed, how many calls it made, and
                      \* one earlier call with its result (or Unset)
    module_tables,    \* the module-level dictionaries and factors
    call,             \* the classifier call last made: function and arguments
    ret,              \* [value |-> what that call returned], or Unset
    ml,               \* the MaizeFertilizerModel singleton: model, scaler, label_encoder
    files,            \* the three files under MODEL_PATH, SCALER_PATH, LABEL_ENCODER_PATH
    train,            \* the background thread running train_model
    request,          \* the handler of POST /predict (predict_and_update_firestore)
    firestore         \* the FirebaseService singleton and the document it writes

\* the prediction service: model singleton, trainer, request handler, store
service == <<ml, files, train, request, firestore>>

vars == <<sensor_data, fertilizer_type, pc, deficit, adjusted, quantity,
          sec_quantity, recommendations, raised, result, caller,
          module_tables, call, ret, ml, files, train, request, firestore>>

\* state outside the frame of calculate_fertilizer_recommendation
outside == <<caller, module_tables, call, ret, service>>

-----------------------------------------------------------------------------
(* Bounds of the model *)

\* readings are taken at each classification threshold and up to Spread below it
Spread == 1

-----------------------------------------------------------------------------
(* Exact rational arithmetic *)

Abs(x) == IF x < 0 THEN -x ELSE x

RECURSIVE GCD(_, _)
GCD(a, b) == IF b = 0 THEN a ELSE GCD(b, a % b)

Rat(n, d) ==
    LET g == GCD(Abs(n), d)
    IN  [n |-> n \div g, d |-> d \div g]

Int2Rat(i) == [n |-> i, d |-> 1]

RMul(a, b) == Rat(a.n * b.n, a.d * b.d)
RDiv(a, b) == Rat(a.n * b.d, a.d * b.n)
RAdd(a, b) == Rat(a.n * b.d + b.n * a.d, a.d * b.d)
RSub(a, b) == Rat(a.n * b.d - b.n * a.d, a.d * b.d)
RLt(a, b)  == a.n * b.d < b.n * a.d
RLe(a, b)  == a.n * b.d <= b.n * a.d
RMax(a, b) == IF RLt(a, b) THEN b ELSE a
RZero(a)   == a.n = 0

\* a value held in tenths, as a rational
Tenths(t) == Rat(t, 10)

-----------------------------------------------------------------------------
(* round(x, 1) *)

\* Exact ties, named by their value in twentieths (858.75 is 17175), that the
\* program's floating-point evaluation resolves to the tenth above ...
FloatTieUp ==
    {261, 313, 667, 687, 1055, 1115, 1177, 1189, 1255, 1267, 2235, 2891, 3093,
     3333, 3435, 5025, 6375, 6875, 7675, 8931, 10375, 14375, 17175}

\* ... and to the tenth below.
FloatTieDown ==
    {45, 219, 741, 931, 1065, 1565, 1577, 1637, 2061, 2609, 2757, 3585, 3825}

\* one-decimal rounding with every tie taken away from zero
Round1_HalfUp(x) ==
    LET t  == 10 * x.n
        fl == t \div x.d
        r2 == 2 * (t % x.d)
    IN  IF r2 < x.d THEN fl ELSE fl + 1

\* round(x, 1) of a non-negative value, in tenths.  A tie outside the two
\* tables is one whose binary value is exact: Python rounds it half to even.
Round1(x) ==
    LET t  == 10 * x.n
        fl == t \div x.d
        r2 == 2 * (t % x.d)
        m  == 2 * fl + 1
    IN  IF r2 < x.d THEN fl
        ELSE IF r2 > x.d THEN fl + 1
        ELSE IF m \in FloatTieUp THEN fl + 1
        ELSE IF m \in FloatTieDown THEN fl
        ELSE IF fl % 2 = 0 THEN fl ELSE fl + 1

-----------------------------------------------------------------------------
(* Text *)

\* Python `a in b` for strings: a is a contiguous run of the words of b
Contains(b, a) ==
    \E i \in 0..(Len(b) - Len(a)) :
        \A j \in 1..Len(a) : b[i + j] = a[j]

Str(words) == [type |-> "str", value |-> words]

\* a label that is not a string
None == [type |-> "NoneType"]

\* dict.get(key, default)
Get(dict, key, default) == IF key \in DOMAIN dict THEN dict[key] ELSE default

-----------------------------------------------------------------------------
(* Module-level tables of fertilizer_quantity.py *)

PH_MAIZE_TARGETS == [N |-> 120, P |-> 60, K |-> 60]

\* the factor read as the oxide's share of phosphorus-free mass
P_TO_P2O5_Doubled == Rat(458, 100)

P_TO_P2O5 == Rat(229, 100)
K_TO_K2O == Rat(120, 100)

\* mutation: the K "medium" threshold repeats the N one
NPK_THRESHOLDS_KMediumFromN ==
    [N |-> [low |-> 80, medium |-> 140],
     P |-> [low |-> 15, medium |-> 30],
     K |-> [low |-> 80, medium |-> 140]]

NPK_THRESHOLDS ==
    [N |-> [low |-> 80, medium |-> 140],
     P |-> [low |-> 15, medium |-> 30],
     K |-> [low |-> 80, medium |-> 150]]

Urea == <<"Urea">>
AmmoniumSulfate == <<"Ammonium", "Sulfate">>
AmmoniumPhosphate == <<"Ammonium", "Phosphate", "(", "16-20-0", ")">>
Complete14 == <<"Complete", "Fertilizer", "(", "14-14-14", ")">>
Complete16 == <<"Complete", "Fertilizer", "(", "16-16-16", ")">>
MuriateOfPotash == <<"Muriate", "of", "Potash", "(", "0-0-60", ")">>
SingleSuperphosphate == <<"Single", "Superphosphate">>
TripleSuperphosphate == <<"Triple", "Superphosphate">>

FERTILIZER_COMPOSITIONS ==
    (Urea :> [N |-> 46, P |-> 0, K |-> 0]) @@
    (AmmoniumSulfate :> [N |-> 21, P |-> 0, K |-> 0]) @@
    (AmmoniumPhosphate :> [N |-> 16, P |-> 20, K |-> 0]) @@
    (Complete14 :> [N |-> 14, P |-> 14, K |-> 14]) @@
    (Complete16 :> [N |-> 16, P |-> 16, K |-> 16]) @@
    (MuriateOfPotash :> [N |-> 0, P |-> 0, K |-> 60]) @@
    (SingleSuperphosphate :> [N |-> 0, P |-> 18, K |-> 0]) @@
    (TripleSuperphosphate :> [N |-> 0, P |-> 46, K |-> 0])

APPLICATION_TIMING ==
    [Basal |-> "Apply at planting time or before planting",
     FirstTopDressing |-> "Apply 25-30 days after planting",
     SecondTopDressing |-> "Apply 45-50 days after planting (before tasseling)"]

-----------------------------------------------------------------------------
(* data_processing.py *)

categorize_npk_maize(value, nutrient) ==
    IF nutrient = "N"
    THEN IF value < 80 THEN "Low" ELSE IF value < 140 THEN "Medium" ELSE "High"
    ELSE IF nutrient = "P"
    THEN IF value < 15 THEN "Low" ELSE IF value < 30 THEN "Medium" ELSE "High"
    ELSE IF nutrient = "K"
    THEN IF value < 80 THEN "Low" ELSE IF value < 150 THEN "Medium" ELSE "High"
    ELSE "None"

\* the pH classifier with the upper end of the optimal range left out
categorize_ph_maize_OptimalBelow7(ph_value) ==
    IF ph_value < 55 THEN "Very Acidic"
    ELSE IF ph_value < 60 THEN "Acidic"
    ELSE IF ph_value < 70 THEN "Optimal"
    ELSE IF ph_value <= 75 THEN "Slightly Alkaline"
    ELSE "Alkaline"

\* pH in tenths
categorize_ph_maize(ph_value) ==
    IF ph_value < 55 THEN "Very Acidic"
    ELSE IF ph_value < 60 THEN "Acidic"
    ELSE IF ph_value <= 70 THEN "Optimal"
    ELSE IF ph_value <= 75 THEN "Slightly Alkaline"
    ELSE "Alkaline"

categorize_rainfall_maize(rainfall_value) ==
    IF rainfall_value < 500 THEN "Insufficient"
    ELSE IF rainfall_value < 750 THEN "Marginal"
    ELSE IF rainfall_value <= 1200 THEN "Optimal"
    ELSE "Excessive"

RMin(a, b) == IF RLt(b, a) THEN b ELSE a

\* the excess penalty without the min(1, ...)
rainfall_adequacy_Unclamped(rainfall) ==
    IF rainfall < 500 THEN Rat(rainfall, 500)
    ELSE IF rainfall <= 1200 THEN Int2Rat(1)
    ELSE RSub(Int2Rat(1), Rat(rainfall - 1200, 800))

rainfall_adequacy(rainfall) ==
    IF rainfall < 500 THEN Rat(rainfall, 500)
    ELSE IF rainfall <= 1200 THEN Int2Rat(1)
    ELSE RSub(Int2Rat(1), RMin(Int2Rat(1), Rat(rainfall - 1200, 800)))

-----------------------------------------------------------------------------
(* calculate_npk_deficit_from_category *)

\* mutation: a High reading gets no maintenance amount
NutrientDeficit_NoMaintenance(nutrient, value) ==
    LET thresholds == NPK_THRESHOLDS[nutrient]
        target     == Int2Rat(PH_MAIZE_TARGETS[nutrient])
    IN  IF value < thresholds.low THEN target
        ELSE IF value < thresholds.medium THEN RMul(target, Rat(5, 10))
        ELSE Int2Rat(0)

\* a High reading gets 5% of the target as maintenance amount
NutrientDeficit_HalfMaintenance(nutrient, value) ==
    LET thresholds == NPK_THRESHOLDS[nutrient]
        target     == Int2Rat(PH_MAIZE_TARGETS[nutrient])
    IN  IF value < thresholds.low THEN target
        ELSE IF value < thresholds.medium THEN RMul(target, Rat(5, 10))
        ELSE RMul(target, Rat(5, 100))

\* the body of the loop over npk_values.items(), for one nutrient
NutrientDeficit(nutrient, value) ==
    LET thresholds == NPK_THRESHOLDS[nutrient]
        target     == Int2Rat(PH_MAIZE_TARGETS[nutrient])
    IN  IF value < thresholds.low THEN target
        ELSE IF value < thresholds.medium THEN RMul(target, Rat(5, 10))
        ELSE RMul(target, Rat(1, 10))

calculate_npk_deficit_from_category(npk_values) ==
    LET loop == [nutrient \in {"N", "P", "K"} |->
                    IF nutrient \in DOMAIN npk_values
                    THEN NutrientDeficit(nutrient, npk_values[nutrient])
                    ELSE Int2Rat(0)]
    IN  [N    |-> loop["N"],
         P    |-> loop["P"],
         K    |-> loop["K"],
         P2O5 |-> RMul(loop["P"], P_TO_P2O5),
         K2O  |-> RMul(loop["K"], K_TO_K2O)]

-----------------------------------------------------------------------------
(* adjust_for_soil_conditions; ph in tenths *)

\* mutation: the rainfall test hangs off the pH chain as one more elif
adjust_for_soil_conditions_OneChain(d, ph, rainfall) ==
    IF ph < 55
    THEN [d EXCEPT !.P2O5 = RMul(Get(d, "P2O5", Int2Rat(0)), Rat(13, 10))]
    ELSE IF ph > 75
    THEN [d EXCEPT !.P2O5 = RMul(Get(d, "P2O5", Int2Rat(0)), Rat(125, 100))]
    ELSE IF rainfall > 1200
    THEN [d EXCEPT !.N = RMul(Get(d, "N", Int2Rat(0)), Rat(12, 10))]
    ELSE d

adjust_for_soil_conditions(d, ph, rainfall) ==
    LET afterPh ==
            IF ph < 55
            THEN [d EXCEPT !.P2O5 = RMul(Get(d, "P2O5", Int2Rat(0)), Rat(13, 10))]
            ELSE IF ph > 75
            THEN [d EXCEPT !.P2O5 = RMul(Get(d, "P2O5", Int2Rat(0)), Rat(125, 100))]
            ELSE d
    IN  IF rainfall > 1200
        THEN [afterPh EXCEPT !.N = RMul(Get(afterPh, "N", Int2Rat(0)), Rat(12, 10))]
        ELSE afterPh

-----------------------------------------------------------------------------
(* get_fertilizer_quantities *)

\* (deficit / percentage) * 100
PerCent(d, percentage) == RMul(RDiv(d, Int2Rat(percentage)), Int2Rat(100))

\* `comp[X] / x_deficit if x_deficit else 0`
InverseRatio(percentage, d) ==
    IF RZero(d) THEN Int2Rat(0) ELSE RDiv(Int2Rat(percentage), d)

\* a local that has no value yet
Unset == [unset |-> TRUE]

\* no secondary product: the name stays "" and sec_quantity is never assigned
NoSecondary == [name |-> <<>>, sec_quantity |-> Unset]

\* `if remaining_n > 10`: Urea for the nitrogen the primary leaves uncovered
UreaFor(remaining_n) ==
    IF RLt(Int2Rat(10), remaining_n)
    THEN [name |-> Urea,
          sec_quantity |-> PerCent(remaining_n, FERTILIZER_COMPOSITIONS[Urea].N)]
    ELSE NoSecondary

\* "NPK-rich" / "Complete Fertilizer" branch, higher N need: 16-16-16 sized on P
Complete16Branch(n_deficit, p_deficit, k_deficit) ==
    LET comp == FERTILIZER_COMPOSITIONS[Complete16]
        q    == PerCent(p_deficit, comp.P)
        remaining_n == RSub(n_deficit, RDiv(RMul(q, Int2Rat(comp.N)), Int2Rat(100)))
    IN  [primary |-> Complete16, quantity |-> q, secondary |-> UreaFor(remaining_n)]

\* "NPK-rich" / "Complete Fertilizer" branch, balanced need: 14-14-14
Complete14Branch(n_deficit, p_deficit, k_deficit) ==
    LET comp    == FERTILIZER_COMPOSITIONS[Complete14]
        divisor == RMax(RMax(InverseRatio(comp.N, n_deficit),
                             InverseRatio(comp.P, p_deficit)),
                        InverseRatio(comp.K, k_deficit))
        q       == IF RZero(divisor) THEN Int2Rat(0)
                   ELSE RMul(RDiv(Int2Rat(1), divisor), Int2Rat(100))
    IN  [primary |-> Complete14, quantity |-> q, secondary |-> NoSecondary]

NitrogenBranch(n_deficit, p_deficit, k_deficit) ==
    [primary   |-> Urea,
     quantity  |-> PerCent(n_deficit, FERTILIZER_COMPOSITIONS[Urea].N),
     secondary |->
        IF RLt(Int2Rat(10), p_deficit)
        THEN [name |-> SingleSuperphosphate,
              sec_quantity |-> PerCent(p_deficit,
                                  FERTILIZER_COMPOSITIONS[SingleSuperphosphate].P)]
        ELSE NoSecondary]

PhosphorusBranch(n_deficit, p_deficit, k_deficit) ==
    [primary   |-> TripleSuperphosphate,
     quantity  |-> PerCent(p_deficit, FERTILIZER_COMPOSITIONS[TripleSuperphosphate].P),
     secondary |-> UreaFor(n_deficit)]

PotassiumBranch(n_deficit, p_deficit, k_deficit) ==
    [primary   |-> MuriateOfPotash,
     quantity  |-> PerCent(k_deficit, FERTILIZER_COMPOSITIONS[MuriateOfPotash].K),
     secondary |-> UreaFor(n_deficit)]

NPBranch(n_deficit, p_deficit, k_deficit) ==
    LET comp == FERTILIZER_COMPOSITIONS[AmmoniumPhosphate]
        q    == PerCent(p_deficit, comp.P)
        remaining_n == RSub(n_deficit, RDiv(RMul(q, Int2Rat(comp.N)), Int2Rat(100)))
    IN  [primary |-> AmmoniumPhosphate, quantity |-> q, secondary |-> UreaFor(remaining_n)]

\* the default product sized on the sum of the three ratios, not their mean
DefaultBranch_Sum(n_deficit, p_deficit, k_deficit) ==
    [primary   |-> Complete14,
     quantity  |-> RMul(RAdd(RAdd(RDiv(n_deficit, Int2Rat(14)),
                                  RDiv(p_deficit, Int2Rat(14))),
                             RDiv(k_deficit, Int2Rat(14))),
                        Int2Rat(100)),
     secondary |-> NoSecondary]

\* ((n/14) + (p/14) + (k/14)) * 100 / 3
DefaultBranch(n_deficit, p_deficit, k_deficit) ==
    [primary   |-> Complete14,
     quantity  |-> RDiv(RMul(RAdd(RAdd(RDiv(n_deficit, Int2Rat(14)),
                                       RDiv(p_deficit, Int2Rat(14))),
                                  RDiv(k_deficit, Int2Rat(14))),
                             Int2Rat(100)),
                        Int2Rat(3)),
     secondary |-> NoSecondary]

\* the chain with the "Potassium-rich" test moved in front of the others
SelectFertilizers_PotassiumFirst(adjusted_deficit, label) ==
    LET n_deficit == Get(adjusted_deficit, "N", Int2Rat(0))
        p_deficit == Get(adjusted_deficit, "P2O5", Int2Rat(0))
        k_deficit == Get(adjusted_deficit, "K2O", Int2Rat(0))
    IN  IF Contains(label, <<"Potassium-rich">>)
        THEN PotassiumBranch(n_deficit, p_deficit, k_deficit)
        ELSE IF Contains(label, <<"NPK-rich">>) \/ Contains(label, <<"Complete", "Fertilizer">>)
        THEN IF RLe(p_deficit, n_deficit) /\ RLe(k_deficit, n_deficit)
             THEN Complete16Branch(n_deficit, p_deficit, k_deficit)
             ELSE Complete14Branch(n_deficit, p_deficit, k_deficit)
        ELSE IF Contains(label, <<"Nitrogen-rich">>)
        THEN NitrogenBranch(n_deficit, p_deficit, k_deficit)
        ELSE IF Contains(label, <<"Phosphorus-rich">>)
        THEN PhosphorusBranch(n_deficit, p_deficit, k_deficit)
        ELSE IF Contains(label, <<"NP", "Fertilizer">>)
        THEN NPBranch(n_deficit, p_deficit, k_deficit)
        ELSE DefaultBranch(n_deficit, p_deficit, k_deficit)

\* the chain with the 16-16-16 test comparing N with P2O5 only
SelectFertilizers_NAgainstPOnly(adjusted_deficit, label) ==
    LET n_deficit == Get(adjusted_deficit, "N", Int2Rat(0))
        p_deficit == Get(adjusted_deficit, "P2O5", Int2Rat(0))
        k_deficit == Get(adjusted_deficit, "K2O", Int2Rat(0))
    IN  IF Contains(label, <<"NPK-rich">>) \/ Contains(label, <<"Complete", "Fertilizer">>)
        THEN IF RLe(p_deficit, n_deficit)
             THEN Complete16Branch(n_deficit, p_deficit, k_deficit)
             ELSE Complete14Branch(n_deficit, p_deficit, k_deficit)
        ELSE IF Contains(label, <<"Nitrogen-rich">>)
        THEN NitrogenBranch(n_deficit, p_deficit, k_deficit)
        ELSE IF Contains(label, <<"Phosphorus-rich">>)
        THEN PhosphorusBranch(n_deficit, p_deficit, k_deficit)
        ELSE IF Contains(label, <<"Potassium-rich">>)
        THEN PotassiumBranch(n_deficit, p_deficit, k_deficit)
        ELSE IF Contains(label, <<"NP", "Fertilizer">>)
        THEN NPBranch(n_deficit, p_deficit, k_deficit)
        ELSE DefaultBranch(n_deficit, p_deficit, k_deficit)

\* the if / elif chain on the label: primary product with its unrounded
\* quantity, secondary product with its unrounded sec_quantity
SelectFertilizers(adjusted_deficit, label) ==
    LET n_deficit == Get(adjusted_deficit, "N", Int2Rat(0))
        p_deficit == Get(adjusted_deficit, "P2O5", Int2Rat(0))
        k_deficit == Get(adjusted_deficit, "K2O", Int2Rat(0))
    IN  IF Contains(label, <<"NPK-rich">>) \/ Contains(label, <<"Complete", "Fertilizer">>)
        THEN IF RLe(p_deficit, n_deficit) /\ RLe(k_deficit, n_deficit)
             THEN Complete16Branch(n_deficit, p_deficit, k_deficit)
             ELSE Complete14Branch(n_deficit, p_deficit, k_deficit)
        ELSE IF Contains(label, <<"Nitrogen-rich">>)
        THEN NitrogenBranch(n_deficit, p_deficit, k_deficit)
        ELSE IF Contains(label, <<"Phosphorus-rich">>)
        THEN PhosphorusBranch(n_deficit, p_deficit, k_deficit)
        ELSE IF Contains(label, <<"Potassium-rich">>)
        THEN PotassiumBranch(n_deficit, p_deficit, k_deficit)
        ELSE IF Contains(label, <<"NP", "Fertilizer">>)
        THEN NPBranch(n_deficit, p_deficit, k_deficit)
        ELSE DefaultBranch(n_deficit, p_deficit, k_deficit)

\* one entry of application_schedule; percentage "40%" is held as 40
Stage(timing, percentage, q, primary) ==
    [timing     |-> timing,
     percentage |-> percentage,
     quantity   |-> Round1(RMul(q, Rat(percentage, 100))),
     fertilizer |-> primary]

\* recommendation["secondary_fertilizer"] as the selection leaves it
SecondaryEntry(secondary) ==
    [name     |-> secondary.name,
     quantity |-> IF secondary.name = <<>> THEN 0 ELSE Round1(secondary.sec_quantity),
     unit     |-> "kg/ha"]

\* stage["secondary"] = {"quantity": round(sec_qty * share, 1), "fertilizer": sec_name}
\* where sec_qty is read back from recommendation["secondary_fertilizer"]
WithSecondary(stage, sec, share) ==
    stage @@ [secondary |->
                [quantity   |-> Round1(RMul(Tenths(sec.quantity), share)),
                 fertilizer |-> sec.name]]

IsNitrogenSource(sec_name) ==
    Contains(sec_name, <<"Urea">>) \/ Contains(sec_name, <<"Ammonium">>)

\* the condition of the split schedule
UseSplit(label, q) ==
    Contains(label, <<"Split", "Application">>) \/ RLt(Int2Rat(200), q)

\* mutation: the second top dressing repeats the basal share
SplitSchedule_SecondAt40(q, primary, sec) ==
    [basal |-> Stage(APPLICATION_TIMING.Basal, 40, q, primary),
     first_top_dressing  |-> Stage(APPLICATION_TIMING.FirstTopDressing, 30, q, primary),
     second_top_dressing |-> Stage(APPLICATION_TIMING.SecondTopDressing, 40, q, primary)]

\* the 3-stage schedule with a nitrogen secondary given once, at the first
\* top dressing
SplitSchedule_SecondaryOnce(q, primary, sec) ==
    LET basal  == Stage(APPLICATION_TIMING.Basal, 40, q, primary)
        first  == Stage(APPLICATION_TIMING.FirstTopDressing, 30, q, primary)
        second == Stage(APPLICATION_TIMING.SecondTopDressing, 30, q, primary)
    IN  IF sec.name = <<>>
        THEN [basal |-> basal, first_top_dressing |-> first,
              second_top_dressing |-> second]
        ELSE IF IsNitrogenSource(sec.name)
        THEN [basal |-> basal,
              first_top_dressing  |-> WithSecondary(first, sec, Rat(5, 10)),
              second_top_dressing |-> second]
        ELSE [basal |-> WithSecondary(basal, sec, Rat(7, 10)),
              first_top_dressing  |-> WithSecondary(first, sec, Rat(3, 10)),
              second_top_dressing |-> second]

SplitSchedule(q, primary, sec) ==
    LET basal  == Stage(APPLICATION_TIMING.Basal, 40, q, primary)
        first  == Stage(APPLICATION_TIMING.FirstTopDressing, 30, q, primary)
        second == Stage(APPLICATION_TIMING.SecondTopDressing, 30, q, primary)
    IN  IF sec.name = <<>>
        THEN [basal |-> basal, first_top_dressing |-> first,
              second_top_dressing |-> second]
        ELSE IF IsNitrogenSource(sec.name)
        THEN [basal |-> basal,
              first_top_dressing  |-> WithSecondary(first, sec, Rat(5, 10)),
              second_top_dressing |-> WithSecondary(second, sec, Rat(5, 10))]
        ELSE [basal |-> WithSecondary(basal, sec, Rat(7, 10)),
              first_top_dressing  |-> WithSecondary(first, sec, Rat(3, 10)),
              second_top_dressing |-> second]

\* the 2-stage schedule with the test on the secondary's name inverted
StandardSchedule_NitrogenAtBasal(q, primary, sec) ==
    LET basal == Stage(APPLICATION_TIMING.Basal, 70, q, primary)
        top   == Stage(APPLICATION_TIMING.FirstTopDressing, 30, q, primary)
    IN  IF sec.name = <<>>
        THEN [basal |-> basal, top_dressing |-> top]
        ELSE IF IsNitrogenSource(sec.name)
        THEN [basal |-> WithSecondary(basal, sec, Int2Rat(1)), top_dressing |-> top]
        ELSE [basal |-> basal, top_dressing |-> WithSecondary(top, sec, Int2Rat(1))]

StandardSchedule(q, primary, sec) ==
    LET basal == Stage(APPLICATION_TIMING.Basal, 70, q, primary)
        top   == Stage(APPLICATION_TIMING.FirstTopDressing, 30, q, primary)
    IN  IF sec.name = <<>>
        THEN [basal |-> basal, top_dressing |-> top]
        ELSE IF ~IsNitrogenSource(sec.name)
        THEN [basal |-> WithSecondary(basal, sec, Int2Rat(1)), top_dressing |-> top]
        ELSE [basal |-> basal, top_dressing |-> WithSecondary(top, sec, Int2Rat(1))]

get_fertilizer_quantities(adjusted_deficit, label) ==
    LET sel == SelectFertilizers(adjusted_deficit, label)
        sec == SecondaryEntry(sel.secondary)
    IN  [primary_fertilizer |->
            [name |-> sel.primary, quantity |-> Round1(sel.quantity), unit |-> "kg/ha"],
         secondary_fertilizer |-> sec,
         application_schedule |->
            IF UseSplit(label, sel.quantity)
            THEN SplitSchedule(sel.quantity, sel.primary, sec)
            ELSE StandardSchedule(sel.quantity, sel.primary, sec)]

-----------------------------------------------------------------------------
(* calculate_fertilizer_recommendation *)

\* step 4 with both pH tests inclusive
SoilAmendment_Inclusive(ph) ==
    LET lime_tons == Round1(Rat((65 - ph) * 15, 100))
        sulfur_kg == Round1(Rat((ph - 65) * 300, 10))
    IN  IF ph <= 55 /\ lime_tons > 0
        THEN [soil_amendment |->
                [name |-> "Agricultural Lime", quantity |-> lime_tons, unit |-> "tons/ha",
                 application |-> "Apply and incorporate into soil 2-4 weeks before planting"]]
        ELSE IF ph >= 75 /\ sulfur_kg > 0
        THEN [soil_amendment |->
                [name |-> "Agricultural Sulfur", quantity |-> sulfur_kg, unit |-> "kg/ha",
                 application |-> "Apply and incorporate into soil 4-6 weeks before planting"]]
        ELSE <<>>

\* step 4: the soil amendment of a reading's pH (tenths), or no key at all
SoilAmendment(ph) ==
    LET lime_tons == Round1(Rat((65 - ph) * 15, 100))
        sulfur_kg == Round1(Rat((ph - 65) * 300, 10))
    IN  IF ph < 55 /\ lime_tons > 0
        THEN [soil_amendment |->
                [name |-> "Agricultural Lime", quantity |-> lime_tons, unit |-> "tons/ha",
                 application |-> "Apply and incorporate into soil 2-4 weeks before planting"]]
        ELSE IF ph > 75 /\ sulfur_kg > 0
        THEN [soil_amendment |->
                [name |-> "Agricultural Sulfur", quantity |-> sulfur_kg, unit |-> "kg/ha",
                 application |-> "Apply and incorporate into soil 4-6 weeks before planting"]]
        ELSE <<>>

\* the dictionary returned by the except clause (quantities in tenths)
FallbackRecommendation ==
    [primary_fertilizer |->
        [name |-> Complete14, quantity |-> 2500, unit |-> "kg/ha"],
     application_schedule |->
        [basal |->
            [timing |-> "Apply at planting time", percentage |-> 60,
             quantity |-> 1500, fertilizer |-> Complete14],
         top_dressing |->
            [timing |-> "Apply 30 days after planting", percentage |-> 40,
             quantity |-> 1000, fertilizer |-> Complete14]]]

-----------------------------------------------------------------------------
(* Inputs *)

ReadingsNear(nutrient) ==
    {NPK_THRESHOLDS[nutrient][b] - k : b \in {"low", "medium"}, k \in 0..Spread}

PhValues == {50, 54, 55, 65, 75, 76, 80}

RainfallValues == {400, 500, 1200, 1201}

\* the two worked readings of the documentation
ScenarioA == [N |-> 50, P |-> 10, K |-> 40, ph |-> 50, rainfall |-> 400]
ScenarioB == [N |-> 150, P |-> 40, K |-> 160, ph |-> 65, rainfall |-> 900]

WellFormedReadings ==
    [N : ReadingsNear("N"), P : ReadingsNear("P"), K : ReadingsNear("K"),
     ph : PhValues, rainfall : RainfallValues]
    \cup {ScenarioA, ScenarioB}

Without(dict, key) == [k \in (DOMAIN dict) \ {key} |-> dict[k]]

\* readings that lack a key the engine reads
MalformedReadings ==
    {Without(r, key) :
        r \in {w \in WellFormedReadings : w.P = 14 /\ w.K = 79},
        key \in {"N", "ph", "rainfall"}}

\* the eight base recommendations of the training rule
BaseLabels ==
    {<<"NPK-rich", "Complete", "Fertilizer">>,
     <<"NP", "Fertilizer", "Mix">>,
     <<"NK", "Fertilizer", "Mix">>,
     <<"Nitrogen-rich", "Fertilizer">>,
     <<"PK", "Fertilizer", "Mix">>,
     <<"Phosphorus-rich", "Fertilizer">>,
     <<"Potassium-rich", "Fertilizer">>,
     <<"Balanced", "Maintenance", "Fertilizer">>}

SplitModifier == <<"(", "Split", "Application", "Recommended", ")">>
SlowReleaseModifier == <<"(", "Slow-Release", "Formulation", ")">>

Labels ==
    {Str(b) : b \in BaseLabels}
    \cup {Str(<<"Complete", "Fertilizer">>),
          Str(<<"Nitrogen-rich", "Fertilizer", "with", "Lime">> \o SplitModifier),
          Str(<<"Balanced", "Maintenance", "Fertilizer">> \o SplitModifier),
          Str(<<"NPK-rich", "Complete", "Fertilizer">> \o SlowReleaseModifier),
          Str(<<"NK", "Fertilizer", "Mix", "with", "Lime">>),
          Str(<<"PK", "Fertilizer", "Mix">> \o SlowReleaseModifier),
          Str(<<"Organic", "Compost">>),
          Str(<<>>),
          None}

-----------------------------------------------------------------------------
(* The state machine: one call of calculate_fertilizer_recommendation *)

\* the prediction service before any request: nothing loaded, no thread
ServiceIdle ==
    /\ ml = [model |-> None, scaler |-> None, label_encoder |-> None]
    /\ files = None
    /\ train = [pc |-> "idle", gen |-> 0]
    /\ request = [pc |-> "idle"]
    /\ firestore = [db |-> None, document |-> None]

\* the module-level names of fertilizer_quantity.py as the import leaves them
ModuleTables ==
    [PH_MAIZE_TARGETS        |-> PH_MAIZE_TARGETS,
     P_TO_P2O5               |-> P_TO_P2O5,
     K_TO_K2O                |-> K_TO_K2O,
     NPK_THRESHOLDS          |-> NPK_THRESHOLDS,
     FERTILIZER_COMPOSITIONS |-> FERTILIZER_COMPOSITIONS,
     APPLICATION_TIMING      |-> APPLICATION_TIMING]

\* the caller's view at its first call
FirstCall(reading, label) ==
    [reading |-> reading, label |-> label, ncalls |-> 1, earlier |-> Unset]

Init ==
    /\ sensor_data \in WellFormedReadings \cup MalformedReadings
    /\ fertilizer_type \in Labels
    /\ pc = "deficit"
    /\ deficit = Unset
    /\ adjusted = Unset
    /\ quantity = Unset
    /\ sec_quantity = Unset
    /\ recommendations = Unset
    /\ raised = FALSE
    /\ result = Unset
    /\ caller = FirstCall(sensor_data, fertilizer_type)
    /\ module_tables = ModuleTables
    /\ call = Unset
    /\ ret = Unset
    /\ ServiceIdle

\* an exception inside the try block: control moves to the except clause
Raise ==
    /\ pc' = "except"
    /\ raised' = TRUE

\* step 1: npk_values = {...}; deficit = calculate_npk_deficit_from_category(npk_values)
CalculateDeficit ==
    /\ pc = "deficit"
    /\ IF {"N", "P", "K"} \subseteq DOMAIN sensor_data
       THEN /\ deficit' = calculate_npk_deficit_from_category(
                              [k \in {"N", "P", "K"} |-> sensor_data[k]])
            /\ pc' = "adjust"
            /\ UNCHANGED raised
       ELSE /\ Raise
            /\ UNCHANGED deficit
    /\ UNCHANGED <<sensor_data, fertilizer_type, adjusted, quantity,
                   sec_quantity, recommendations, result>>
    /\ UNCHANGED outside

\* step 2: adjusted = adjust_for_soil_conditions(deficit, ph, rainfall)
AdjustForSoil ==
    /\ pc = "adjust"
    /\ IF {"ph", "rainfall"} \subseteq DOMAIN sensor_data
       THEN /\ adjusted' = adjust_for_soil_conditions(
                               deficit, sensor_data["ph"], sensor_data["rainfall"])
            /\ pc' = "quantities"
            /\ UNCHANGED raised
       ELSE /\ Raise
            /\ UNCHANGED adjusted
    /\ UNCHANGED <<sensor_data, fertilizer_type, deficit, quantity,
                   sec_quantity, recommendations, result>>
    /\ UNCHANGED outside

\* step 3: recommendations = get_fertilizer_quantities(adjusted, fertilizer_type)
GetQuantities ==
    /\ pc = "quantities"
    /\ IF fertilizer_type.type = "str"
       THEN /\ recommendations' =
                    get_fertilizer_quantities(adjusted, fertilizer_type.value)
            /\ quantity' = SelectFertilizers(adjusted, fertilizer_type.value).quantity
            /\ sec_quantity' =
                    SelectFertilizers(adjusted, fertilizer_type.value).secondary.sec_quantity
            /\ pc' = "amendment"
            /\ UNCHANGED raised
       ELSE /\ Raise
            /\ UNCHANGED <<recommendations, quantity, sec_quantity>>
    /\ UNCHANGED <<sensor_data, fertilizer_type, deficit, adjusted, result>>
    /\ UNCHANGED outside

\* step 4 writing into a dictionary that outlives the call: keys of the
\* recommendation returned before are still there
AmendAndReturn_SharedDict ==
    /\ pc = "amendment"
    /\ result' = SoilAmendment(sensor_data["ph"]) @@ recommendations
                    @@ (IF result = Unset THEN <<>> ELSE result)
    /\ pc' = "returned"
    /\ UNCHANGED <<sensor_data, fertilizer_type, deficit, adjusted, quantity,
                   sec_quantity, recommendations, raised>>
    /\ UNCHANGED outside

\* step 4 and the return of the try block
AmendAndReturn ==
    /\ pc = "amendment"
    /\ result' = SoilAmendment(sensor_data["ph"]) @@ recommendations
    /\ pc' = "returned"
    /\ UNCHANGED <<sensor_data, fertilizer_type, deficit, adjusted, quantity,
                   sec_quantity, recommendations, raised>>
    /\ UNCHANGED outside

\* except Exception: return the simplified recommendation
ExceptReturn ==
    /\ pc = "except"
    /\ result' = FallbackRecommendation
    /\ pc' = "returned"
    /\ UNCHANGED <<sensor_data, fertilizer_type, deficit, adjusted, quantity,
                   sec_quantity, recommendations, raised>>
    /\ UNCHANGED outside

Next ==
    \/ CalculateDeficit
    \/ AdjustForSoil
    \/ GetQuantities
    \/ AmendAndReturn
    \/ ExceptReturn

Spec == Init /\ [][Next]_vars

-----------------------------------------------------------------------------
(* A caller that calls calculate_fertilizer_recommendation again and again *)

\* calls one caller makes
MaxCalls == 3

CallReadings ==
    {ScenarioA, ScenarioB, [ScenarioB EXCEPT !.ph = 80], Without(ScenarioA, "ph")}

CallLabels ==
    {Str(<<"NPK-rich", "Complete", "Fertilizer">>),
     Str(<<"Nitrogen-rich", "Fertilizer">>),
     None}

InitCalls ==
    /\ sensor_data \in CallReadings
    /\ fertilizer_type \in CallLabels
    /\ pc = "deficit"
    /\ deficit = Unset
    /\ adjusted = Unset
    /\ quantity = Unset
    /\ sec_quantity = Unset
    /\ recommendations = Unset
    /\ raised = FALSE
    /\ result = Unset
    /\ caller = FirstCall(sensor_data, fertilizer_type)
    /\ module_tables = ModuleTables
    /\ call = Unset
    /\ ret = Unset
    /\ ServiceIdle

\* the caller builds a reading and calls again; it may keep the call that
\* just returned (arguments and result) to compare a later one with
CallAgain ==
    /\ pc = "returned"
    /\ caller.ncalls < MaxCalls
    /\ \E reading \in CallReadings, label \in CallLabels, keep \in BOOLEAN :
          /\ sensor_data' = reading
          /\ fertilizer_type' = label
          /\ caller' = [reading |-> reading,
                        label   |-> label,
                        ncalls  |-> caller.ncalls + 1,
                        earlier |-> IF keep
                                    THEN [reading |-> sensor_data,
                                          label   |-> fertilizer_type,
                                          result  |-> result]
                                    ELSE caller.earlier]
    /\ pc' = "deficit"
    /\ deficit' = Unset
    /\ adjusted' = Unset
    /\ quantity' = Unset
    /\ sec_quantity' = Unset
    /\ recommendations' = Unset
    /\ raised' = FALSE
    /\ UNCHANGED <<result, module_tables, call, ret, service>>

NextCalls ==
    \/ CalculateDeficit
    \/ AdjustForSoil
    \/ GetQuantities
    \/ AmendAndReturn
    \/ ExceptReturn
    \/ CallAgain

SpecCalls == InitCalls /\ [][NextCalls]_vars

-----------------------------------------------------------------------------
(* The classifiers of data_processing.py, called on values of their own *)

\* largest soil test value (mg/kg), pH (tenths) and rainfall (mm) classified
MaxNutrient == 200
MaxPh == 140
MaxRainfall == 2400

\* the calls made: function and arguments
ClassifierCalls ==
    {[fn |-> "categorize_npk_maize", value |-> value, nutrient |-> nutrient] :
        value \in 0..MaxNutrient, nutrient \in {"N", "P", "K"}}
    \cup {[fn |-> "categorize_ph_maize", value |-> ph_value] : ph_value \in 0..MaxPh}
    \cup {[fn |-> f, value |-> rainfall] :
            f \in {"categorize_rainfall_maize", "rainfall_adequacy"},
            rainfall \in 0..MaxRainfall}

InitClassify ==
    /\ sensor_data = Unset
    /\ fertilizer_type = None
    /\ pc = "not called"
    /\ deficit = Unset
    /\ adjusted = Unset
    /\ quantity = Unset
    /\ sec_quantity = Unset
    /\ recommendations = Unset
    /\ raised = FALSE
    /\ result = Unset
    /\ caller = Unset
    /\ module_tables = ModuleTables
    /\ call \in ClassifierCalls
    /\ ret = Unset
    /\ ServiceIdle

\* the frame of calculate_fertilizer_recommendation and its caller
engine == <<sensor_data, fertilizer_type, pc, deficit, adjusted, quantity,
            sec_quantity, recommendations, raised, result, caller, module_tables,
            service>>

CategorizeNpk ==
    /\ call.fn = "categorize_npk_maize"
    /\ ret = Unset
    /\ ret' = [value |-> categorize_npk_maize(call.value, call.nutrient)]
    /\ UNCHANGED <<call, engine>>

CategorizePh ==
    /\ call.fn = "categorize_ph_maize"
    /\ ret = Unset
    /\ ret' = [value |-> categorize_ph_maize(call.value)]
    /\ UNCHANGED <<call, engine>>

CategorizeRainfall ==
    /\ call.fn = "categorize_rainfall_maize"
    /\ ret = Unset
    /\ ret' = [value |-> categorize_rainfall_maize(call.value)]
    /\ UNCHANGED <<call, engine>>

RainfallAdequacy ==
    /\ call.fn = "rainfall_adequacy"
    /\ ret = Unset
    /\ ret' = [value |-> rainfall_adequacy(call.value)]
    /\ UNCHANGED <<call, engine>>

NextClassify ==
    \/ CategorizeNpk
    \/ CategorizePh
    \/ CategorizeRainfall
    \/ RainfallAdequacy

SpecClassify == InitClassify /\ [][NextClassify]_vars

-----------------------------------------------------------------------------
(* The labels of the training rule (ml_models.py, recommend_fertilizer_maize) *)

NpkCategories == {"Low", "Medium", "High"}
PhCategories == {"Very Acidic", "Acidic", "Optimal", "Slightly Alkaline", "Alkaline"}
RainfallCategories == {"Insufficient", "Marginal", "Optimal", "Excessive"}

\* base_rec + ph_modifier + rain_modifier, as words
recommend_fertilizer_maize(row) ==
    LET n_cat    == row.N_category
        p_cat    == row.P_category
        k_cat    == row.K_category
        ph_cat   == row.pH_category
        rain_cat == row.rainfall_category
        base_rec ==
            IF n_cat = "Low" /\ p_cat = "Low" /\ k_cat = "Low"
            THEN <<"NPK-rich", "Complete", "Fertilizer">>
            ELSE IF n_cat = "Low"
            THEN IF p_cat = "Low" THEN <<"NP", "Fertilizer", "Mix">>
                 ELSE IF k_cat = "Low" THEN <<"NK", "Fertilizer", "Mix">>
                 ELSE <<"Nitrogen-rich", "Fertilizer">>
            ELSE IF p_cat = "Low" /\ k_cat = "Low" THEN <<"PK", "Fertilizer", "Mix">>
            ELSE IF p_cat = "Low" THEN <<"Phosphorus-rich", "Fertilizer">>
            ELSE IF k_cat = "Low" THEN <<"Potassium-rich", "Fertilizer">>
            ELSE <<"Balanced", "Maintenance", "Fertilizer">>
        ph_modifier ==
            IF ph_cat = "Very Acidic" THEN <<"with", "Lime">>
            ELSE IF ph_cat = "Acidic" THEN <<"with", "Calcium", "Carbonate">>
            ELSE IF ph_cat = "Alkaline" THEN <<"with", "Sulfur">>
            ELSE <<>>
        rain_modifier ==
            IF rain_cat = "Insufficient" THEN SplitModifier
            ELSE IF rain_cat = "Excessive" THEN SlowReleaseModifier
            ELSE <<>>
    IN  base_rec \o ph_modifier \o rain_modifier

\* every label the rule builds over the rows of the training data
TrainedLabels ==
    {recommend_fertilizer_maize(row) :
        row \in [N_category : NpkCategories, P_category : NpkCategories,
                 K_category : NpkCategories, pH_category : PhCategories,
                 rainfall_category : RainfallCategories]}

\* labels a caller can pass that hold the keywords of two branches
TwoKeywordLabels ==
    {<<"Potassium-rich", "Nitrogen-rich", "Fertilizer">>,
     <<"Potassium-rich", "Complete", "Fertilizer">>,
     <<"NP", "Fertilizer", "Phosphorus-rich">>,
     <<"Phosphorus-rich", "Nitrogen-rich", "Fertilizer">>}

\* readings of every N, P, K category on acidic and neutral soil, and one
\* reading without its pH
TrainedReadings ==
    {r \in WellFormedReadings : r.ph \in {50, 65} /\ r.rainfall \in {500, 1201}}
    \cup {Without(ScenarioA, "ph")}

InitTrained ==
    /\ sensor_data \in TrainedReadings
    /\ fertilizer_type \in {Str(l) : l \in TrainedLabels \cup TwoKeywordLabels}
    /\ pc = "deficit"
    /\ deficit = Unset
    /\ adjusted = Unset
    /\ quantity = Unset
    /\ sec_quantity = Unset
    /\ recommendations = Unset
    /\ raised = FALSE
    /\ result = Unset
    /\ caller = FirstCall(sensor_data, fertilizer_type)
    /\ module_tables = ModuleTables
    /\ call = Unset
    /\ ret = Unset
    /\ ServiceIdle

SpecTrained == InitTrained /\ [][Next]_vars

-----------------------------------------------------------------------------
(* The prediction service: POST /train in a background thread, POST /predict *)

\* training runs started
MaxTrainings == 2

\* an estimator object of training run gen, before and after its fit
Fresh(gen) == [gen |-> gen, fitted |-> FALSE]
Fitted(gen) == [gen |-> gen, fitted |-> TRUE]

\* an attribute of the singleton can be used to transform or predict
Usable(estimator) == estimator # None /\ estimator.fitted

\* what firestore.client() returns
Client == [type |-> "Client"]

FERTILIZER_DOC_ID == "VM5JaRgm4URI58Gg1HcV"

get_application_method(rainfall_status, pH_status) ==
    IF rainfall_status = "Insufficient"
    THEN "Split Application - Apply in small doses with irrigation"
    ELSE IF rainfall_status = "Excessive"
    THEN "Use Slow-Release Formulation to prevent leaching"
    ELSE IF pH_status = "Very Acidic" \/ pH_status = "Acidic"
    THEN "Apply after lime treatment for best results"
    ELSE IF pH_status = "Alkaline"
    THEN "Apply with sulfur amendments for best uptake"
    ELSE "Standard application methods recommended"

\* the whole call, steps 1 to 4 or the except clause, as one value
calculate_fertilizer_recommendation(reading, label) ==
    IF /\ {"N", "P", "K", "ph", "rainfall"} \subseteq DOMAIN reading
       /\ label.type = "str"
    THEN SoilAmendment(reading["ph"])
         @@ get_fertilizer_quantities(
                adjust_for_soil_conditions(
                    calculate_npk_deficit_from_category(
                        [k \in {"N", "P", "K"} |-> reading[k]]),
                    reading["ph"], reading["rainfall"]),
                label.value)
    ELSE FallbackRecommendation

\* request bodies and the labels the fitted classifier answers with
ServiceReadings == {ScenarioA, ScenarioB}

ServiceLabels ==
    {Str(<<"NPK-rich", "Complete", "Fertilizer">> \o <<"with", "Lime">> \o SplitModifier),
     Str(<<"Balanced", "Maintenance", "Fertilizer">>)}

InitService ==
    /\ sensor_data = Unset
    /\ fertilizer_type = None
    /\ pc = "not called"
    /\ deficit = Unset
    /\ adjusted = Unset
    /\ quantity = Unset
    /\ sec_quantity = Unset
    /\ recommendations = Unset
    /\ raised = FALSE
    /\ result = Unset
    /\ caller = Unset
    /\ module_tables = ModuleTables
    /\ call = Unset
    /\ ret = Unset
    \* MaizeFertilizerModel.__new__: load_model finds the three files or not
    /\ \/ /\ files = [gen |-> 0]
          /\ ml = [model |-> Fitted(0), scaler |-> Fitted(0), label_encoder |-> Fitted(0)]
       \/ /\ files = None
          /\ ml = [model |-> None, scaler |-> None, label_encoder |-> None]
    /\ train = [pc |-> "idle", gen |-> 0]
    /\ request = [pc |-> "idle"]
    \* FirebaseService.__new__: firestore.client() or db = None
    /\ firestore \in [db : {Client, None}, document : {None}]

\* everything but the singleton, the files and the training thread
besides_training == <<sensor_data, fertilizer_type, pc, deficit, adjusted, quantity,
                      sec_quantity, recommendations, raised, result, caller,
                      module_tables, call, ret, request, firestore>>

\* POST /train: background_tasks.add_task(ml_model_service.train_model, ...)
StartTraining ==
    /\ train.pc = "idle"
    /\ train.gen < MaxTrainings
    /\ train' = [pc |-> "label_encoder", gen |-> train.gen + 1]
    /\ UNCHANGED <<ml, files, besides_training>>

\* self.label_encoder = LabelEncoder()
NewLabelEncoder ==
    /\ train.pc = "label_encoder"
    /\ ml' = [ml EXCEPT !.label_encoder = Fresh(train.gen)]
    /\ train' = [train EXCEPT !.pc = "fit_label_encoder"]
    /\ UNCHANGED <<files, besides_training>>

\* y_encoded = self.label_encoder.fit_transform(y)
FitLabelEncoder ==
    /\ train.pc = "fit_label_encoder"
    /\ ml' = [ml EXCEPT !.label_encoder = Fitted(train.gen)]
    /\ train' = [train EXCEPT !.pc = "scaler"]
    /\ UNCHANGED <<files, besides_training>>

\* train_test_split(...); self.scaler = StandardScaler()
NewScaler ==
    /\ train.pc = "scaler"
    /\ ml' = [ml EXCEPT !.scaler = Fresh(train.gen)]
    /\ train' = [train EXCEPT !.pc = "fit_scaler"]
    /\ UNCHANGED <<files, besides_training>>

\* X_train_scaled = self.scaler.fit_transform(X_train)
FitScaler ==
    /\ train.pc = "fit_scaler"
    /\ ml' = [ml EXCEPT !.scaler = Fitted(train.gen)]
    /\ train' = [train EXCEPT !.pc = "model"]
    /\ UNCHANGED <<files, besides_training>>

\* self.model = AdaBoostClassifier(...)
NewModel ==
    /\ train.pc = "model"
    /\ ml' = [ml EXCEPT !.model = Fresh(train.gen)]
    /\ train' = [train EXCEPT !.pc = "fit_model"]
    /\ UNCHANGED <<files, besides_training>>

\* self.model.fit(X_train_scaled, y_train)
FitModel ==
    /\ train.pc = "fit_model"
    /\ ml' = [ml EXCEPT !.model = Fitted(train.gen)]
    /\ train' = [train EXCEPT !.pc = "save"]
    /\ UNCHANGED <<files, besides_training>>

\* the three joblib.dump calls and the return
SaveModel ==
    /\ train.pc = "save"
    /\ files' = [gen |-> train.gen]
    /\ train' = [train EXCEPT !.pc = "idle"]
    /\ UNCHANGED <<ml, besides_training>>

\* everything but the request handler, the singleton and the store
besides_request == <<sensor_data, fertilizer_type, pc, deficit, adjusted, quantity,
                     sec_quantity, recommendations, raised, result, caller,
                     module_tables, call, ret, files, train>>

\* POST /predict: predict_and_update_firestore(sensor_data.dict())
NewRequest ==
    /\ request.pc \in {"idle", "returned", "raised"}
    /\ \E reading \in ServiceReadings :
          request' = [pc                      |-> "check_model",
                      reading                 |-> reading,
                      used                    |-> [scaler |-> Unset, model |-> Unset,
                                                   label_encoder |-> Unset],
                      prediction_label        |-> Unset,
                      pH_status               |-> Unset,
                      rainfall_status         |-> Unset,
                      application_method      |-> Unset,
                      quantity_recommendation |-> Unset,
                      write_attempted         |-> FALSE,
                      firestore_response      |-> Unset,
                      response                |-> Unset]
    /\ UNCHANGED <<ml, firestore, besides_request>>

\* except Exception: log and raise; the endpoint answers HTTP 500
Propagate ==
    request' = [request EXCEPT !.pc = "raised"]

\* if not self.model_service.model: if not self.model_service.load_model(): raise
\* (the truth value of an estimator that is not fitted yet is taken either
\* as an error or as true)
CheckModel ==
    /\ request.pc = "check_model"
    /\ IF ml.model = None
       THEN IF files # None
            THEN /\ ml' = [model         |-> Fitted(files.gen),
                           scaler        |-> Fitted(files.gen),
                           label_encoder |-> Fitted(files.gen)]
                 /\ request' = [request EXCEPT !.pc = "scaler"]
            ELSE /\ Propagate
                 /\ UNCHANGED ml
       ELSE /\ \/ request' = [request EXCEPT !.pc = "scaler"]
               \/ ~ml.model.fitted /\ Propagate
            /\ UNCHANGED ml
    /\ UNCHANGED <<firestore, besides_request>>

\* scaled_data = self.scaler.transform(processed_data[self.feature_columns])
UseScaler ==
    /\ request.pc = "scaler"
    /\ IF Usable(ml.scaler)
       THEN request' = [request EXCEPT !.pc = "model", !.used.scaler = ml.scaler.gen]
       ELSE Propagate
    /\ UNCHANGED <<ml, firestore, besides_request>>

\* prediction = self.model.predict(scaled_data)
UseModel ==
    /\ request.pc = "model"
    /\ IF Usable(ml.model)
       THEN request' = [request EXCEPT !.pc = "label_encoder", !.used.model = ml.model.gen]
       ELSE Propagate
    /\ UNCHANGED <<ml, firestore, besides_request>>

\* prediction_label = self.label_encoder.inverse_transform(prediction)[0]
UseLabelEncoder ==
    /\ request.pc = "label_encoder"
    /\ IF Usable(ml.label_encoder)
       THEN \E label \in ServiceLabels :
                request' = [request EXCEPT !.pc = "quantity",
                                           !.used.label_encoder = ml.label_encoder.gen,
                                           !.prediction_label = label]
       ELSE Propagate
    /\ UNCHANGED <<ml, firestore, besides_request>>

\* pH_status, rainfall_status, application_method, quantity_recommendation
Quantity ==
    /\ request.pc = "quantity"
    /\ LET pH_status       == categorize_ph_maize(request.reading["ph"])
           rainfall_status == categorize_rainfall_maize(request.reading["rainfall"])
       IN  request' = [request EXCEPT
                         !.pc = "write",
                         !.pH_status = pH_status,
                         !.rainfall_status = rainfall_status,
                         !.application_method =
                             get_application_method(rainfall_status, pH_status),
                         !.quantity_recommendation =
                             calculate_fertilizer_recommendation(
                                 request.reading, request.prediction_label)]
    /\ UNCHANGED <<ml, firestore, besides_request>>

\* the update without the except clause of update_fertilizer_recommendation:
\* a storage error reaches the caller
UpdateFirestore_Uncaught ==
    /\ request.pc = "write"
    /\ \/ /\ firestore.db = None
          /\ request' = [request EXCEPT
                            !.pc = "respond",
                            !.write_attempted = TRUE,
                            !.firestore_response =
                                [document_id |-> FERTILIZER_DOC_ID, success |-> FALSE,
                                 message |-> "Firestore client is not initialized"]]
          /\ UNCHANGED firestore
       \/ /\ firestore.db # None
          /\ request' = [request EXCEPT
                            !.pc = "respond",
                            !.write_attempted = TRUE,
                            !.firestore_response =
                                [document_id |-> FERTILIZER_DOC_ID, success |-> TRUE,
                                 message |-> "Fertilizer recommendation updated successfully"]]
          /\ firestore' = [firestore EXCEPT !.document =
                              [fertilizer_type         |-> request.prediction_label,
                               fertilizer_application  |-> request.application_method,
                               quantity_recommendation |-> request.quantity_recommendation]]
       \/ /\ firestore.db # None
          /\ request' = [request EXCEPT !.pc = "raised", !.write_attempted = TRUE]
          /\ UNCHANGED firestore
    /\ UNCHANGED <<ml, besides_request>>

\* firestore_response = self.firebase_service.update_fertilizer_recommendation(...)
UpdateFirestore ==
    /\ request.pc = "write"
    /\ \/ /\ firestore.db = None
          /\ request' = [request EXCEPT
                            !.pc = "respond",
                            !.write_attempted = TRUE,
                            !.firestore_response =
                                [document_id |-> FERTILIZER_DOC_ID, success |-> FALSE,
                                 message |-> "Firestore client is not initialized"]]
          /\ UNCHANGED firestore
       \/ /\ firestore.db # None
          /\ request' = [request EXCEPT
                            !.pc = "respond",
                            !.write_attempted = TRUE,
                            !.firestore_response =
                                [document_id |-> FERTILIZER_DOC_ID, success |-> TRUE,
                                 message |-> "Fertilizer recommendation updated successfully"]]
          /\ firestore' = [firestore EXCEPT !.document =
                              [fertilizer_type         |-> request.prediction_label,
                               fertilizer_application  |-> request.application_method,
                               quantity_recommendation |-> request.quantity_recommendation]]
       \/ /\ firestore.db # None
          /\ request' = [request EXCEPT
                            !.pc = "respond",
                            !.write_attempted = TRUE,
                            !.firestore_response =
                                [document_id |-> FERTILIZER_DOC_ID, success |-> FALSE,
                                 message |-> "Error updating fertilizer recommendation"]]
          /\ UNCHANGED firestore
    /\ UNCHANGED <<ml, besides_request>>

\* response = {...}; return response
Respond ==
    /\ request.pc = "respond"
    /\ request' = [request EXCEPT
                      !.pc = "returned",
                      !.response =
                          [fertilizer_type         |-> request.prediction_label,
                           fertilizer_application  |-> request.application_method,
                           pH_status               |-> request.pH_status,
                           rainfall_status         |-> request.rainfall_status,
                           npk_status              |->
                               [k \in {"N", "P", "K"} |->
                                   categorize_npk_maize(request.reading[k], k)],
                           quantity_recommendation |-> request.quantity_recommendation,
                           id |-> IF request.firestore_response.success
                                  THEN Str(<<request.firestore_response.document_id>>)
                                  ELSE None]]
    /\ UNCHANGED <<ml, firestore, besides_request>>

NextService ==
    \/ StartTraining
    \/ NewLabelEncoder
    \/ FitLabelEncoder
    \/ NewScaler
    \/ FitScaler
    \/ NewModel
    \/ FitModel
    \/ SaveModel
    \/ NewRequest
    \/ CheckModel
    \/ UseScaler
    \/ UseModel
    \/ UseLabelEncoder
    \/ Quantity
    \/ UpdateFirestore
    \/ Respond

SpecService == InitService /\ [][NextService]_vars

-----------------------------------------------------------------------------
(* Vocabulary of the properties *)

Returned == pc = "returned"

\* the call computed its recommendation (no exception was caught)
Computed == Returned /\ ~raised

StageNames(r) == DOMAIN r.application_schedule

\* Basal 40%, First Top Dressing 30%, Second Top Dressing 30%
IsSplitSchedule(r) ==
    /\ StageNames(r) = {"basal", "first_top_dressing", "second_top_dressing"}
    /\ r.application_schedule["basal"].percentage = 40
    /\ r.application_schedule["first_top_dressing"].percentage = 30
    /\ r.application_schedule["second_top_dressing"].percentage = 30

\* Basal 70%, Top Dressing 30%
IsStandardSchedule(r) ==
    /\ StageNames(r) = {"basal", "top_dressing"}
    /\ r.application_schedule["basal"].percentage = 70
    /\ r.application_schedule["top_dressing"].percentage = 30

\* a value with the keys every consumer of a recommendation reads
HasRecommendationShape(r) ==
    {"primary_fertilizer", "application_schedule"} \subseteq DOMAIN r

\* the label selects the "NPK-rich" / "Complete Fertilizer" branch
IsCompleteLabel(label) ==
    /\ label.type = "str"
    /\ \/ Contains(label.value, <<"NPK-rich">>)
       \/ Contains(label.value, <<"Complete", "Fertilizer">>)

\* the largest of (deficit / percentage) * 100 over N, P2O5 and K2O
LimitingQuantity(d, product) ==
    LET comp == FERTILIZER_COMPOSITIONS[product]
    IN  RMax(RMax(PerCent(d.N, comp.N), PerCent(d.P2O5, comp.P)),
             PerCent(d.K2O, comp.K))

\* what a quantity of a product supplies of one nutrient
Supplied(q, percentage) == RDiv(RMul(q, Int2Rat(percentage)), Int2Rat(100))

-----------------------------------------------------------------------------
(* C1 *)

\* C1: for the reading N=50, P=10, K=40, ph=5.0, rainfall=400 with the label
\* "NPK-rich Complete Fertilizer" the call returns the primary product
\* Complete Fertilizer (16-16-16) with quantity 1116.4 kg/ha and the 3-stage
\* split schedule.
C1_ScenarioA ==
    (/\ Returned
     /\ sensor_data = ScenarioA
     /\ fertilizer_type = Str(<<"NPK-rich", "Complete", "Fertilizer">>))
    => /\ result.primary_fertilizer.name = Complete16
       /\ result.primary_fertilizer.quantity = 11164
       /\ IsSplitSchedule(result)

-----------------------------------------------------------------------------
(* C2 *)

\* C2: whenever the label is routed to the NPK-rich / Complete branch, the
\* primary quantity is the largest of (deficit / product%) * 100 over N, P2O5
\* and K2O, so the primary supplies at least the P2O5 and the K2O deficit.
C2_LimitingNutrientSizing ==
    (Computed /\ IsCompleteLabel(fertilizer_type))
    => LET product == result.primary_fertilizer.name
           comp    == FERTILIZER_COMPOSITIONS[product]
       IN  /\ quantity = LimitingQuantity(adjusted, product)
           /\ RLe(adjusted.P2O5, Supplied(quantity, comp.P))
           /\ RLe(adjusted.K2O, Supplied(quantity, comp.K))

-----------------------------------------------------------------------------
(* C3 *)

\* C3: a computed recommendation carries the 3-stage split schedule exactly
\* when the reading's rainfall is below 500 mm or the primary quantity exceeds
\* 200 kg/ha, and the 2-stage standard schedule otherwise, whatever the label
\* says.
C3_ScheduleShape ==
    Computed
    => IF sensor_data.rainfall < 500 \/ RLt(Int2Rat(200), quantity)
       THEN IsSplitSchedule(result)
       ELSE IsStandardSchedule(result)

-----------------------------------------------------------------------------
(* C4 *)

\* C4: when a step of the call fails, the caller is not handed a value that
\* has the shape of a recommendation.
C4_FailureIsSurfaced ==
    (Returned /\ raised) => ~HasRecommendationShape(result)

-----------------------------------------------------------------------------
(* C5 *)

\* C5: the fallback names Complete Fertilizer (14-14-14), carries the standard
\* schedule Basal 70% / Top Dressing 30% with each stage quantity that share
\* of the primary quantity, and never pairs a primary quantity above
\* 200 kg/ha with a 2-stage schedule.
C5_FallbackIsStandard ==
    (Returned /\ raised)
    => /\ result.primary_fertilizer.name = Complete14
       /\ IsStandardSchedule(result)
       /\ \A st \in StageNames(result) :
            result.application_schedule[st].quantity =
                Round1(RMul(Tenths(result.primary_fertilizer.quantity),
                            Rat(result.application_schedule[st].percentage, 100)))
       /\ ~(result.primary_fertilizer.quantity > 2000
            /\ Cardinality(StageNames(result)) = 2)

-----------------------------------------------------------------------------
(* C6 *)

\* the stages of r that carry a secondary entry
SecondaryStages(r) ==
    {st \in StageNames(r) : "secondary" \in DOMAIN r.application_schedule[st]}

\* the share of the secondary total that a stage carries
SecondaryShare(r, st) ==
    IF Cardinality(SecondaryStages(r)) = 1 THEN Int2Rat(1)
    ELSE IF IsNitrogenSource(r.secondary_fertilizer.name) THEN Rat(5, 10)
    ELSE IF st = "basal" THEN Rat(7, 10)
    ELSE Rat(3, 10)

\* C6: every emitted quantity (primary, secondary, each primary stage quantity
\* and each secondary stage quantity) is the one-decimal rounding of the exact
\* unrounded value: the unrounded total times the stage fraction.
C6_RoundingOnlyAtOutput ==
    Computed
    => /\ result.primary_fertilizer.quantity = Round1(quantity)
       /\ \A st \in StageNames(result) :
            result.application_schedule[st].quantity =
                Round1(RMul(quantity,
                            Rat(result.application_schedule[st].percentage, 100)))
       /\ result.secondary_fertilizer.name # <<>>
            => result.secondary_fertilizer.quantity = Round1(sec_quantity)
       /\ \A st \in SecondaryStages(result) :
            result.application_schedule[st].secondary.quantity =
                Round1(RMul(sec_quantity, SecondaryShare(result, st)))

-----------------------------------------------------------------------------
(* C7 *)

RECURSIVE SumOver(_, _)
SumOver(f, S) ==
    IF S = {} THEN 0
    ELSE LET x == CHOOSE y \in S : TRUE
         IN  f[x] + SumOver(f, S \ {x})

PercentageSum(r) ==
    SumOver([st \in StageNames(r) |-> r.application_schedule[st].percentage],
            StageNames(r))

\* in tenths of kg/ha
StageQuantitySum(r) ==
    SumOver([st \in StageNames(r) |-> r.application_schedule[st].quantity],
            StageNames(r))

\* C7: in every returned recommendation, the fallback included, the stage
\* percentages sum to exactly 100 and the primary stage quantities sum to the
\* stated primary quantity within 0.2 kg/ha.
C7_ScheduleSums ==
    Returned
    => /\ PercentageSum(result) = 100
       /\ Abs(StageQuantitySum(result) - result.primary_fertilizer.quantity) <= 2

\* a split schedule whose rounded stage quantities do not add up to the total
C7_Witness ==
    /\ Computed
    /\ IsSplitSchedule(result)
    /\ StageQuantitySum(result) # result.primary_fertilizer.quantity

-----------------------------------------------------------------------------
(* C8 *)

\* C8: for each of N, P, K the deficit is the target (120, 60, 60) exactly
\* when categorize_npk_maize says Low, half of it exactly when Medium and a
\* tenth of it exactly when High; P2O5 = P deficit * 2.29, K2O = K deficit * 1.20.
C8_DeficitFollowsCategory ==
    deficit # Unset
    => /\ \A x \in {"N", "P", "K"} :
            LET c == categorize_npk_maize(sensor_data[x], x)
                t == Int2Rat(IF x = "N" THEN 120 ELSE 60)
            IN  /\ (deficit[x] = t) <=> (c = "Low")
                /\ (deficit[x] = RMul(t, Rat(1, 2))) <=> (c = "Medium")
                /\ (deficit[x] = RMul(t, Rat(1, 10))) <=> (c = "High")
       /\ deficit.P2O5 = RMul(deficit.P, Rat(229, 100))
       /\ deficit.K2O = RMul(deficit.K, Rat(6, 5))

\* a reading exactly on the lower N threshold and on the upper P threshold
C8_Witness ==
    /\ deficit # Unset
    /\ sensor_data.N = 80 /\ deficit.N = Int2Rat(60)
    /\ sensor_data.P = 30 /\ deficit.P = Int2Rat(6)
    /\ deficit.P2O5 = Rat(1374, 100)

-----------------------------------------------------------------------------
(* C9 *)

\* the 10% maintenance share of each target: 12, 6, 13.74, 6, 7.2
MaintenanceShare ==
    [N |-> Int2Rat(12), P |-> Int2Rat(6), P2O5 |-> Rat(1374, 100),
     K |-> Int2Rat(6), K2O |-> Rat(72, 10)]

AtLeastMaintenance(d) ==
    /\ DOMAIN d = {"N", "P", "P2O5", "K", "K2O"}
    /\ \A f \in DOMAIN d :
        /\ RLe(Int2Rat(0), d[f])
        /\ ~RZero(d[f])
        /\ RLe(MaintenanceShare[f], d[f])

\* C9: the five deficit fields are >= 0 after the deficit calculation and
\* after the soil adjustment, and none is zero: each is at least the 10%
\* maintenance share of its target.
C9_DeficitsPositive ==
    /\ deficit # Unset => AtLeastMaintenance(deficit)
    /\ adjusted # Unset => AtLeastMaintenance(adjusted)

\* an all-High reading in neutral soil: every field sits on its minimum
C9_Witness ==
    /\ adjusted # Unset
    /\ \A f \in DOMAIN adjusted : adjusted[f] = MaintenanceShare[f]

-----------------------------------------------------------------------------
(* C10 *)

\* C10: the adjustment multiplies P2O5 by 1.3 iff pH < 5.5 and by 1.25 iff
\* pH > 7.5, multiplies N by 1.2 iff rainfall > 1200, applies both corrections
\* when both conditions hold, leaves P, K and K2O and the caller's deficit
\* mapping as they were, and is the identity for pH in [5.5, 7.5] with
\* rainfall <= 1200.
C10_SoilAdjustment ==
    adjusted # Unset
    => /\ (adjusted.P2O5 = RMul(deficit.P2O5, Rat(13, 10))) <=> (sensor_data.ph < 55)
       /\ (adjusted.P2O5 = RMul(deficit.P2O5, Rat(5, 4))) <=> (sensor_data.ph > 75)
       /\ (adjusted.P2O5 = deficit.P2O5)
            <=> (sensor_data.ph >= 55 /\ sensor_data.ph <= 75)
       /\ (adjusted.N = RMul(deficit.N, Rat(6, 5))) <=> (sensor_data.rainfall > 1200)
       /\ (adjusted.N = deficit.N) <=> (sensor_data.rainfall <= 1200)
       /\ adjusted.P = deficit.P
       /\ adjusted.K = deficit.K
       /\ adjusted.K2O = deficit.K2O
       /\ DOMAIN adjusted = DOMAIN deficit
       /\ deficit = calculate_npk_deficit_from_category(
                        [k \in {"N", "P", "K"} |-> sensor_data[k]])
       /\ (sensor_data.ph >= 55 /\ sensor_data.ph <= 75 /\ sensor_data.rainfall <= 1200)
            => adjusted = deficit

\* acidic soil under excessive rainfall: both corrections at once
C10_Witness ==
    /\ adjusted # Unset
    /\ sensor_data.ph < 55
    /\ sensor_data.rainfall > 1200
    /\ adjusted.P2O5 # deficit.P2O5
    /\ adjusted.N # deficit.N

-----------------------------------------------------------------------------
(* The decision table on the label *)

\* the label begins with the given words
StartsWith(label, words) ==
    /\ Len(label) >= Len(words)
    /\ SubSeq(label, 1, Len(words)) = words

\* the category of the decision table a label belongs to, read off the
\* base recommendation the label begins with
TableCategory(label) ==
    IF StartsWith(label, <<"NPK-rich">>) \/ StartsWith(label, <<"Complete", "Fertilizer">>)
    THEN "Complete"
    ELSE IF StartsWith(label, <<"Nitrogen-rich">>) THEN "Nitrogen"
    ELSE IF StartsWith(label, <<"Phosphorus-rich">>) THEN "Phosphorus"
    ELSE IF StartsWith(label, <<"Potassium-rich">>) THEN "Potassium"
    ELSE IF StartsWith(label, <<"NP", "Fertilizer">>) THEN "NP"
    ELSE "Default"

\* N deficit at least as large as both the P2O5 and the K2O deficit
NitrogenDominates(d) ==
    RLe(d.P2O5, d.N) /\ RLe(d.K2O, d.N)

\* the primary product the decision table names
TablePrimary(category, d) ==
    CASE category = "Complete"   -> IF NitrogenDominates(d) THEN Complete16 ELSE Complete14
      [] category = "Nitrogen"   -> Urea
      [] category = "Phosphorus" -> TripleSuperphosphate
      [] category = "Potassium"  -> MuriateOfPotash
      [] category = "NP"         -> AmmoniumPhosphate
      [] OTHER                   -> Complete14

\* C11: the primary product of every computed recommendation is the one the
\* decision table names for the label's category (16-16-16 for NPK-rich /
\* Complete when the N deficit is at least both other deficits and 14-14-14
\* otherwise, Urea, Triple Superphosphate, Muriate of Potash, Ammonium
\* Phosphate), and the primary name of every returned recommendation is a
\* key of the composition table.
C11_PrimaryFollowsTable ==
    /\ Returned => result.primary_fertilizer.name \in DOMAIN FERTILIZER_COMPOSITIONS
    /\ Computed =>
          result.primary_fertilizer.name
            = TablePrimary(TableCategory(fertilizer_type.value), adjusted)

C11_Witness ==
    /\ Computed
    /\ TableCategory(fertilizer_type.value) = "Complete"
    /\ NitrogenDominates(adjusted)
    /\ result.primary_fertilizer.name = Complete16

-----------------------------------------------------------------------------
(* C12 *)

\* the nutrient whose leftover the decision table tops up with a secondary
LeftoverNutrient(category) ==
    IF category = "Nitrogen" THEN "P2O5" ELSE "N"

\* the product the decision table names as secondary
TableSecondary(category) ==
    IF category = "Nitrogen" THEN SingleSuperphosphate ELSE Urea

\* the key of the composition table holding a nutrient's percentage
CompositionKey(nutrient) ==
    IF nutrient = "P2O5" THEN "P" ELSE IF nutrient = "K2O" THEN "K" ELSE "N"

\* nutrient deficit minus what the primary quantity q supplies of it
Leftover(category, d, primary, q) ==
    LET nutrient == LeftoverNutrient(category)
    IN  RSub(d[nutrient],
             Supplied(q, FERTILIZER_COMPOSITIONS[primary][CompositionKey(nutrient)]))

\* C12: in every computed recommendation of a non-default category (both
\* sub-branches of NPK-rich / Complete included) a secondary product is
\* present exactly when the leftover deficit of the decision table is
\* strictly greater than 10 kg/ha, and then it is the table's product with
\* the quantity (leftover / product%) * 100 rounded to one decimal.
C12_SecondaryExactlyOnLeftover ==
    (Computed /\ TableCategory(fertilizer_type.value) # "Default") =>
        LET category == TableCategory(fertilizer_type.value)
            left     == Leftover(category, adjusted, result.primary_fertilizer.name, quantity)
            sec      == result.secondary_fertilizer
            product  == TableSecondary(category)
            pct      == FERTILIZER_COMPOSITIONS[product][CompositionKey(LeftoverNutrient(category))]
        IN  IF RLt(Int2Rat(10), left)
            THEN /\ sec.name = product
                 /\ sec.quantity = Round1(PerCent(left, pct))
            ELSE sec.name = <<>>

-----------------------------------------------------------------------------
(* C13 *)

\* C13: every label of no decision-table category ("NK Fertilizer Mix",
\* "PK Fertilizer Mix", "Balanced Maintenance Fertilizer", with or without
\* modifiers, and unknown labels) gets the default product 14-14-14 with the
\* quantity ((N/14) + (P2O5/14) + (K2O/14)) * 100 / 3 rounded to one decimal
\* and no secondary product; it never gets a single-nutrient product.
C13_UnmatchedLabelsDefault ==
    (Computed /\ TableCategory(fertilizer_type.value) = "Default") =>
        /\ result.primary_fertilizer.name = Complete14
        /\ result.primary_fertilizer.name
              \notin {Urea, TripleSuperphosphate, MuriateOfPotash, SingleSuperphosphate}
        /\ result.primary_fertilizer.quantity
              = Round1(RDiv(RMul(RAdd(RAdd(RDiv(adjusted.N, Int2Rat(14)),
                                           RDiv(adjusted.P2O5, Int2Rat(14))),
                                      RDiv(adjusted.K2O, Int2Rat(14))),
                                 Int2Rat(100)),
                            Int2Rat(3)))
        /\ result.secondary_fertilizer.name = <<>>
        /\ result.secondary_fertilizer.quantity = 0

C13_Witness ==
    /\ Computed
    /\ StartsWith(fertilizer_type.value, <<"NK", "Fertilizer", "Mix">>)
    /\ result.primary_fertilizer.name = Complete14
    /\ result.primary_fertilizer.quantity > 0

-----------------------------------------------------------------------------
(* C14 *)

\* a secondary product whose name contains "Urea" or "Ammonium"
NitrogenType(name) ==
    \E i \in 1..Len(name) : name[i] \in {"Urea", "Ammonium"}

\* where the claim places a secondary: stage name -> share of its quantity
SecondaryPlacement(r) ==
    IF IsSplitSchedule(r)
    THEN IF NitrogenType(r.secondary_fertilizer.name)
         THEN [first_top_dressing |-> Rat(5, 10), second_top_dressing |-> Rat(5, 10)]
         ELSE [basal |-> Rat(7, 10), first_top_dressing |-> Rat(3, 10)]
    ELSE IF NitrogenType(r.secondary_fertilizer.name)
         THEN [top_dressing |-> Int2Rat(1)]
         ELSE [basal |-> Int2Rat(1)]

\* C14: a nitrogen-type secondary (name containing Urea or Ammonium) is placed
\* 50% / 50% at the first and second top dressing of a 3-stage schedule and
\* wholly at the top dressing of a 2-stage schedule, never at basal; any other
\* secondary is placed 70% at basal and 30% at the first top dressing of a
\* 3-stage schedule and wholly at basal of a 2-stage schedule, never at the
\* last stage.  Each placed quantity is that share of the emitted secondary
\* quantity, to one decimal, and names the secondary product.
C14_SecondaryPlacement ==
    (Computed /\ result.secondary_fertilizer.name # <<>>) =>
        LET place == SecondaryPlacement(result)
            sec   == result.secondary_fertilizer
        IN  /\ SecondaryStages(result) = DOMAIN place
            /\ \A st \in DOMAIN place :
                  /\ result.application_schedule[st].secondary.fertilizer = sec.name
                  /\ result.application_schedule[st].secondary.quantity
                        = Round1(RMul(Tenths(sec.quantity), place[st]))
            /\ NitrogenType(sec.name) => "basal" \notin SecondaryStages(result)
            /\ ~NitrogenType(sec.name) =>
                  SecondaryStages(result) \cap {"second_top_dressing", "top_dressing"} = {}

\* a superphosphate secondary in a 3-stage schedule
C14_Witness ==
    /\ Computed
    /\ IsSplitSchedule(result)
    /\ result.secondary_fertilizer.name = SingleSuperphosphate
    /\ SecondaryStages(result) = {"basal", "first_top_dressing"}

-----------------------------------------------------------------------------
(* C15 *)

\* name, quantity (tenths) and unit of the amendment a pH (tenths) calls for
\* (name "" for none)
AmendmentFor(ph) ==
    IF ph < 55
    THEN [name |-> "Agricultural Lime", unit |-> "tons/ha",
          quantity |-> Round1(RMul(Rat(65 - ph, 10), Rat(15, 10)))]
    ELSE IF ph > 75
    THEN [name |-> "Agricultural Sulfur", unit |-> "kg/ha",
          quantity |-> Round1(RMul(Rat(ph - 65, 10), Int2Rat(300)))]
    ELSE [name |-> "", unit |-> "", quantity |-> 0]

\* C15: the soil amendment of a computed recommendation is a function of the
\* pH alone, whatever N, P, K, rainfall and label are: Agricultural Lime of
\* round((6.5 - pH) * 1.5, 1) tons/ha below pH 5.5, Agricultural Sulfur of
\* round((pH - 6.5) * 300, 1) kg/ha above pH 7.5 (450 at pH 8.0), and no
\* amendment for pH in [5.5, 7.5]; lime and sulfur never come together.
C15_AmendmentFromPhOnly ==
    Computed =>
        LET want == AmendmentFor(sensor_data.ph)
        IN  /\ IF want.name = ""
               THEN "soil_amendment" \notin DOMAIN result
               ELSE /\ "soil_amendment" \in DOMAIN result
                    /\ result.soil_amendment.name = want.name
                    /\ result.soil_amendment.quantity = want.quantity
                    /\ result.soil_amendment.unit = want.unit
            /\ sensor_data.ph = 80 =>
                  /\ result.soil_amendment.name = "Agricultural Sulfur"
                  /\ result.soil_amendment.quantity = 4500
            /\ sensor_data.ph \in 55..75 => "soil_amendment" \notin DOMAIN result

C15_Witness ==
    /\ Computed
    /\ sensor_data.ph = 80
    /\ result.soil_amendment.name = "Agricultural Sulfur"
    /\ result.soil_amendment.quantity = 4500

-----------------------------------------------------------------------------
(* C16 *)

\* a computed recommendation for a reading of pH 5.0
LimedAtPh5 ==
    /\ Computed
    /\ sensor_data.ph = 50
    /\ "soil_amendment" \in DOMAIN result
    /\ result.soil_amendment.name = "Agricultural Lime"

\* C16 (as stated): at pH 5.0 the emitted lime quantity is 2.3 tons/ha, the
\* exact value (6.5 - 5.0) * 1.5 = 2.25 being rounded away from zero.
C16_LimeTieAwayFromZero ==
    (Computed /\ sensor_data.ph = 50) =>
        /\ LimedAtPh5
        /\ result.soil_amendment.quantity = 23

\* C16 (amended): at pH 5.0 the emitted lime quantity is 2.2 tons/ha, the
\* exact tie 2.25 being rounded to the even tenth.
C16_LimeTieToEven ==
    (Computed /\ sensor_data.ph = 50) =>
        /\ LimedAtPh5
        /\ result.soil_amendment.quantity = 22
        /\ result.soil_amendment.unit = "tons/ha"

C16_Witness ==
    /\ LimedAtPh5
    /\ RMul(Rat(65 - sensor_data.ph, 10), Rat(15, 10)) = Rat(225, 100)

-----------------------------------------------------------------------------
(* C17 *)

\* the call in progress or just returned repeats the earlier call the caller kept
RepeatsEarlier ==
    /\ caller.earlier # Unset
    /\ caller.earlier.reading = sensor_data
    /\ caller.earlier.label = fertilizer_type

-----------------------------------------------------------------------------
(* C18 *)

\* the classifier fn was called and has returned
Called(fn) == call # Unset /\ call.fn = fn /\ ret # Unset

\* Low below low, Medium on [low, high), High from high on
ThreeBands(value, low, high) ==
    IF value < low THEN "Low" ELSE IF value < high THEN "Medium" ELSE "High"

\* C18: the classifiers are total and exact at their boundaries.  N is Low
\* below 80, Medium on [80, 140), High from 140; P likewise at 15 and 30; K at
\* 80 and 150.  pH is Very Acidic below 5.5, Acidic on [5.5, 6.0), Optimal on
\* [6.0, 7.0], Slightly Alkaline on (7.0, 7.5], Alkaline above 7.5.  Rainfall
\* is Insufficient below 500, Marginal on [500, 750), Optimal on [750, 1200],
\* Excessive above 1200.  Every value gets exactly one category.
C18_ClassifiersExact ==
    /\ Called("categorize_npk_maize") =>
          /\ ret.value \in {"Low", "Medium", "High"}
          /\ call.nutrient = "N" => ret.value = ThreeBands(call.value, 80, 140)
          /\ call.nutrient = "P" => ret.value = ThreeBands(call.value, 15, 30)
          /\ call.nutrient = "K" => ret.value = ThreeBands(call.value, 80, 150)
    /\ Called("categorize_ph_maize") =>
          /\ ret.value \in {"Very Acidic", "Acidic", "Optimal", "Slightly Alkaline", "Alkaline"}
          /\ ret.value = "Very Acidic" <=> call.value < 55
          /\ ret.value = "Acidic" <=> call.value \in 55..59
          /\ ret.value = "Optimal" <=> call.value \in 60..70
          /\ ret.value = "Slightly Alkaline" <=> call.value \in 71..75
          /\ ret.value = "Alkaline" <=> call.value > 75
    /\ Called("categorize_rainfall_maize") =>
          /\ ret.value \in {"Insufficient", "Marginal", "Optimal", "Excessive"}
          /\ ret.value = "Insufficient" <=> call.value < 500
          /\ ret.value = "Marginal" <=> call.value \in 500..749
          /\ ret.value = "Optimal" <=> call.value \in 750..1200
          /\ ret.value = "Excessive" <=> call.value > 1200

\* pH 7.0, the upper end of the optimal range
C18_Witness ==
    /\ Called("categorize_ph_maize")
    /\ call.value = 70
    /\ ret.value = "Optimal"

-----------------------------------------------------------------------------
(* C19 *)

\* C19: for rainfall >= 0 rainfall_adequacy lies in [0, 1]: rainfall / 500
\* below 500, exactly 1 on [500, 1200], 1 - (rainfall - 1200) / 800 on
\* (1200, 2000) and exactly 0 from 2000 on.  The pieces meet at 500 and at
\* 1200 (the value there is also the value of the neighbouring piece), and
\* the result is never negative.
C19_AdequacyInUnitInterval ==
    Called("rainfall_adequacy") =>
        LET r == call.value
        IN  /\ RLe(Int2Rat(0), ret.value)
            /\ RLe(ret.value, Int2Rat(1))
            /\ r < 500 => ret.value = Rat(r, 500)
            /\ r \in 500..1200 => ret.value = Int2Rat(1)
            /\ (r > 1200 /\ r < 2000) => ret.value = RSub(Int2Rat(1), Rat(r - 1200, 800))
            /\ r >= 2000 => ret.value = Int2Rat(0)
            /\ r = 500 => ret.value = Rat(r, 500)
            /\ r = 1200 => ret.value = RSub(Int2Rat(1), Rat(r - 1200, 800))

\* rainfall beyond 2000 mm, where the penalty is clamped
C19_Witness ==
    /\ Called("rainfall_adequacy")
    /\ call.value > 2000
    /\ ret.value = Int2Rat(0)

-----------------------------------------------------------------------------
(* C20 *)

\* the call of Scenario B has returned
ScenarioBReturned ==
    /\ Returned
    /\ sensor_data = ScenarioB
    /\ fertilizer_type = Str(<<"Balanced", "Maintenance", "Fertilizer">>)

\* C20: for N=150, P=40, K=160, ph=6.5, rainfall=900 with the label "Balanced
\* Maintenance Fertilizer" all three nutrients classify High, the deficits
\* are N=12, P2O5=13.74 and K2O=7.2, no pH or rainfall adjustment applies,
\* the primary quantity is at most 200 kg/ha, the schedule is the standard
\* 2-stage one and there is no soil amendment.
C20_ScenarioB ==
    ScenarioBReturned =>
        /\ ~raised
        /\ \A nutrient \in {"N", "P", "K"} :
              categorize_npk_maize(sensor_data[nutrient], nutrient) = "High"
        /\ deficit.N = Int2Rat(12)
        /\ deficit.P2O5 = Rat(1374, 100)
        /\ deficit.K2O = Rat(72, 10)
        /\ adjusted = deficit
        /\ result.primary_fertilizer.quantity <= 2000
        /\ IsStandardSchedule(result)
        /\ "soil_amendment" \notin DOMAIN result

C20_Witness ==
    /\ ScenarioBReturned
    /\ result.primary_fertilizer.name = Complete14
    /\ result.primary_fertilizer.quantity = 784

-----------------------------------------------------------------------------
(* C21 *)

\* the branches in the order the label is matched against them
BranchOrder ==
    << [category |-> "Complete",   keywords |-> {<<"NPK-rich">>, <<"Complete", "Fertilizer">>}],
       [category |-> "Nitrogen",   keywords |-> {<<"Nitrogen-rich">>}],
       [category |-> "Phosphorus", keywords |-> {<<"Phosphorus-rich">>}],
       [category |-> "Potassium",  keywords |-> {<<"Potassium-rich">>}],
       [category |-> "NP",         keywords |-> {<<"NP", "Fertilizer">>}] >>

Matches(label, i) ==
    \E keyword \in BranchOrder[i].keywords : Contains(label, keyword)

\* the first branch in the order whose keyword the label holds
FirstMatch(label) ==
    IF \E i \in DOMAIN BranchOrder : Matches(label, i)
    THEN BranchOrder[CHOOSE i \in DOMAIN BranchOrder :
                        /\ Matches(label, i)
                        /\ \A j \in 1..(i - 1) : ~Matches(label, j)].category
    ELSE "Default"

\* the base recommendation a trained label begins with
BaseOf(label) ==
    CHOOSE base \in BaseLabels : StartsWith(label, base)

HasModifier(label) == Len(label) > Len(BaseOf(label))

\* C21: for every label the training rule builds (a base recommendation,
\* then an optional pH modifier, then an optional rainfall modifier) the
\* branch taken, and with it the primary product, is the one of the base
\* recommendation alone; for every label the branch is the first one, in the
\* order NPK-rich / Complete, Nitrogen-rich, Phosphorus-rich, Potassium-rich,
\* NP Fertilizer, default, whose keyword the label holds.
C21_ModifiersKeepBranch ==
    Computed =>
        LET label == fertilizer_type.value
        IN  /\ result.primary_fertilizer.name = TablePrimary(FirstMatch(label), adjusted)
            /\ label \in TrainedLabels =>
                  /\ FirstMatch(label) = FirstMatch(BaseOf(label))
                  /\ result.primary_fertilizer.name
                        = TablePrimary(FirstMatch(BaseOf(label)), adjusted)

\* a base recommendation carrying both modifiers
C21_Witness ==
    /\ Computed
    /\ fertilizer_type.value
          = <<"Phosphorus-rich", "Fertilizer", "with", "Lime">> \o SplitModifier
    /\ fertilizer_type.value \in TrainedLabels
    /\ HasModifier(fertilizer_type.value)
    /\ result.primary_fertilizer.name = TripleSuperphosphate

-----------------------------------------------------------------------------
(* C22 *)

\* C22: in a computed recommendation the 10 kg/ha threshold never suppresses
\* the secondary of a single-nutrient branch: a Phosphorus-rich or
\* Potassium-rich label always yields a Urea secondary and a Nitrogen-rich
\* label always yields a Single Superphosphate secondary, the N deficit
\* being at least 12 and the P2O5 deficit at least 13.74.
C22_SingleNutrientSecondary ==
    Computed =>
        LET category == TableCategory(fertilizer_type.value)
            sec      == result.secondary_fertilizer
        IN  /\ RLe(Int2Rat(12), adjusted.N)
            /\ RLe(Rat(1374, 100), adjusted.P2O5)
            /\ category \in {"Phosphorus", "Potassium"} =>
                  sec.name = Urea /\ sec.quantity > 0
            /\ category = "Nitrogen" =>
                  sec.name = SingleSuperphosphate /\ sec.quantity > 0

\* the smallest P2O5 deficit under a Nitrogen-rich label
C22_Witness ==
    /\ Computed
    /\ TableCategory(fertilizer_type.value) = "Nitrogen"
    /\ adjusted.P2O5 = Rat(1374, 100)
    /\ result.secondary_fertilizer.name = SingleSuperphosphate
    /\ result.secondary_fertilizer.quantity = 763

-----------------------------------------------------------------------------
(* C23 *)

\* get_fertilizer_quantities has returned its dictionary
QuantitiesReturned == pc \in {"amendment", "returned"} /\ ~raised

\* in tenths of kg/ha
SecondaryQuantitySum(r) ==
    SumOver([st \in SecondaryStages(r) |-> r.application_schedule[st].secondary.quantity],
            SecondaryStages(r))

\* C23: in every dictionary get_fertilizer_quantities returns, the secondary
\* name is non-empty exactly when the secondary quantity is greater than 0
\* and exactly when some stage carries a secondary entry; every such entry
\* names that product, and the stage secondary quantities sum to the stated
\* secondary quantity within 0.1 kg/ha.
C23_SecondaryConsistent ==
    QuantitiesReturned =>
        LET r   == recommendations
            sec == r.secondary_fertilizer
        IN  /\ sec.name # <<>> <=> sec.quantity > 0
            /\ sec.name # <<>> <=> SecondaryStages(r) # {}
            /\ \A st \in SecondaryStages(r) :
                  r.application_schedule[st].secondary.fertilizer = sec.name
            /\ Abs(SecondaryQuantitySum(r) - sec.quantity) <= 1

\* a Urea secondary split in two halves that do not add up to the total
C23_Witness ==
    /\ QuantitiesReturned
    /\ recommendations.secondary_fertilizer.name = Urea
    /\ Cardinality(SecondaryStages(recommendations)) = 2
    /\ SecondaryQuantitySum(recommendations) # recommendations.secondary_fertilizer.quantity

-----------------------------------------------------------------------------
(* C24 *)

\* self.model_service.predict(processed_data) has returned a label
Predicted == request.pc \in {"quantity", "write", "respond", "returned"}

\* C24: under every interleaving of a background train_model run with a
\* predict call on the MaizeFertilizerModel singleton, the scaler, the model
\* and the label encoder a completed predict call has used come from the same
\* generation: all three from the loaded files or all three from the same
\* training run.
C24_OneGeneration ==
    Predicted =>
        /\ request.used.scaler = request.used.model
        /\ request.used.model = request.used.label_encoder

-----------------------------------------------------------------------------
(* C25 *)

ResponseKeys ==
    {"fertilizer_type", "fertilizer_application", "pH_status", "rainfall_status",
     "npk_status", "quantity_recommendation", "id"}

\* C25: in predict_and_update_firestore the Firestore write is attempted only
\* after the prediction and the quantity recommendation have both completed;
\* a call in which the model could not be loaded or the prediction raised
\* ends with the exception and without a write attempt; a call whose write
\* failed (no client, or a storage error) still returns the full response,
\* with id None, and a call whose write succeeded returns the document id.
C25_WriteAfterPrediction ==
    request.pc # "idle" =>
        /\ request.write_attempted =>
              /\ request.pc \in {"respond", "returned"}
              /\ request.prediction_label \in ServiceLabels
              /\ request.quantity_recommendation
                    = calculate_fertilizer_recommendation(
                          request.reading, request.prediction_label)
        /\ request.pc = "raised" =>
              /\ ~request.write_attempted
              /\ request.prediction_label = Unset
              /\ request.response = Unset
        /\ request.pc = "returned" =>
              /\ request.write_attempted
              /\ DOMAIN request.response = ResponseKeys
              /\ request.response.quantity_recommendation = request.quantity_recommendation
              /\ request.response.fertilizer_type = request.prediction_label
              /\ request.response.id =
                    IF request.firestore_response.success
                    THEN Str(<<FERTILIZER_DOC_ID>>)
                    ELSE None
        /\ (request.write_attempted /\ firestore.db = None) =>
              ~request.firestore_response.success

\* a storage error with an initialised client: the response comes back without id
C25_Witness ==
    /\ request.pc = "returned"
    /\ firestore.db # None
    /\ ~request.firestore_response.success
    /\ request.response.id = None
    /\ HasRecommendationShape(request.response.quantity_recommendation)

=============================================================================
